---------------------------- MODULE Spec2Model ----------------------------
(***************************************************************************)
(* The needle index of a helyim volume: the in-memory key -> NeedleValue   *)
(* map (MemoryNeedleValueMap), the NeedleMapper facade with its usage      *)
(* metrics, the 16-byte index record decoder (idx_entry) and the index     *)
(* file scanner (walk_index_file) that load_idx_file replays through.      *)
(*                                                                         *)
(* The mapper is used through &mut self, so one call runs at a time: a     *)
(* scan in progress (pc = "walk") excludes every other call.  The scan is  *)
(* modelled one loop iteration per step.                                   *)
(*                                                                         *)
(* Integers are unbounded here: the u64 metrics and the u32 fields never   *)
(* come near their width within the bounds explored.                       *)
(***************************************************************************)
EXTENDS Integers, Sequences, FiniteSets, TLC

\* ------------------------------------------------------------ bounds
\* Largest number of complete records of an index file handed to a scan.
MaxRecords == 2
\* Budget of calls: a live call costs 1, a scan costs 1 plus its records.
MaxOps == 3

\* ------------------------------------------------------------ inputs
\* Keys passed to set / delete / get and written in index records.
KeySet == {5, 99}
\* NeedleValue { offset, size } values; offset 0 is the tombstone marker.
LocSet ==
    { [offset |-> 0,  size |-> 0],
      [offset |-> 0,  size |-> 100],
      [offset |-> 10, size |-> 100],
      [offset |-> 20, size |-> 200] }

\* Option<T>: None is the empty sequence, Some(v) the one-element sequence.
None == << >>
Some(v) == << v >>

\* ----------------------------------------------------- index record bytes
RecordSize == 16

\* n as w big-endian bytes (the writer's side of the record layout).
BigEndian(n, w) ==
    LET RECURSIVE be(_, _)
        be(x, i) == IF i = 0 THEN << >> ELSE Append(be(x \div 256, i - 1), x % 256)
    IN  be(n, w)

\* The 16 bytes of one index record: key (8), offset (4), size (4).
Encode(key, offset, size) ==
    BigEndian(key, 8) \o BigEndian(offset, 4) \o BigEndian(size, 4)

\* Buf::get_u64 / get_u32: the big-endian value of a run of bytes.
GetUint(bytes) ==
    LET RECURSIVE acc(_, _)
        acc(a, i) == IF i > Len(bytes) THEN a ELSE acc(a * 256 + bytes[i], i + 1)
    IN  acc(0, 1)

\* A decoder that reads size before offset.
IdxEntrySizeFirst(buf) ==
    [ key    |-> GetUint(SubSeq(buf, 1, 8)),
      offset |-> GetUint(SubSeq(buf, 13, 16)),
      size   |-> GetUint(SubSeq(buf, 9, 12)) ]

\* idx_entry: key, offset and size of a 16-byte buffer.
IdxEntry(buf) ==
    [ key    |-> GetUint(SubSeq(buf, 1, 8)),
      offset |-> GetUint(SubSeq(buf, 9, 12)),
      size   |-> GetUint(SubSeq(buf, 13, 16)) ]

\* Index records over the input sets.  A file handed to a scan holds up to
\* MaxRecords complete records, then nothing or the first bytes of a record
\* whose write was cut short.
RecordSet == { [key |-> k, offset |-> l.offset, size |-> l.size] : k \in KeySet, l \in LocSet }

RecordSeqsOfLen(n) == [1..n -> RecordSet]

EncodeAll(recs) ==
    LET RECURSIVE enc(_)
        enc(i) == IF i > Len(recs) THEN << >>
                  ELSE Encode(recs[i].key, recs[i].offset, recs[i].size) \o enc(i + 1)
    IN  enc(1)

TornLens == {1, 15}

TornTails ==
    { << >> } \cup
    { SubSeq(Encode(r.key, r.offset, r.size), 1, t) : r \in RecordSet, t \in TornLens }

\* The files with exactly n complete records.
FilesOfCount(n) == { EncodeAll(recs) \o tail : recs \in RecordSeqsOfLen(n), tail \in TornTails }

\* ------------------------------------------------------------- state
VARIABLES
    needle_value_map,  \* MemoryNeedleValueMap.hm: a function on the keys present
    metric,            \* NeedleMapper.metric
    pc,                \* "idle", or "walk" while walk_index_file is looping
    walk,              \* frame of the running (or last returned) scan
    calls,             \* that scan's handler invocations and their outcome, in order
    last,              \* the last call and what it returned
    pre,               \* the mapper as it was when the last call was made
    history,           \* every live set / delete and every replayed record, in order
    ops                \* calls made so far, as counted against MaxOps

vars == << needle_value_map, metric, pc, walk, calls, last, pre, history, ops >>

\* Metric::default()
MetricDefault ==
    [ maximum_file_key   |-> 0,
      file_count         |-> 0,
      deleted_count      |-> 0,
      deleted_byte_count |-> 0,
      file_byte_count    |-> 0 ]

\* MemoryNeedleValueMap::new(): the empty HashMap.
HmEmpty == [k \in {} |-> None]

\* NeedleMapper::new(NeedleMapInMemory) / NeedleMapper::default()
NewMapper == [hm |-> HmEmpty, metric |-> MetricDefault]

Mapper == [hm |-> needle_value_map, metric |-> metric]

\* ----------------------------------------------- MemoryNeedleValueMap
\* HashMap::insert: the new map and the value replaced, if any.
HmSet(hm, key, value) ==
    [ hm  |-> [k \in DOMAIN hm \cup {key} |-> IF k = key THEN value ELSE hm[k]],
      old |-> IF key \in DOMAIN hm THEN Some(hm[key]) ELSE None ]

\* A remove that empties the map.
HmDeleteClearsAll(hm, key) ==
    [ hm  |-> HmEmpty,
      old |-> IF key \in DOMAIN hm THEN Some(hm[key]) ELSE None ]

\* HashMap::remove: the new map and the value removed, if any.
HmDelete(hm, key) ==
    [ hm  |-> [k \in DOMAIN hm \ {key} |-> hm[k]],
      old |-> IF key \in DOMAIN hm THEN Some(hm[key]) ELSE None ]

\* HashMap::get(..).copied()
HmGet(hm, key) == IF key \in DOMAIN hm THEN Some(hm[key]) ELSE None

\* ------------------------------------------------------- NeedleMapper
\* Metric bookkeeping shared by set and delete for a value that left the map.
CountDeleted(mt, old) ==
    IF old # None
    THEN [mt EXCEPT !.deleted_count = @ + 1,
                    !.deleted_byte_count = @ + old[1].size]
    ELSE mt

\* A set that nets an overwrite out of the applied bytes.
SetOpNetsOverwrite(m, key, index) ==
    LET gone == IF key \in DOMAIN m.hm THEN m.hm[key].size ELSE 0
        m1   == [m.metric EXCEPT
                   !.maximum_file_key = IF key > @ THEN key ELSE @,
                   !.file_count = @ + 1,
                   !.file_byte_count = @ + index.size - gone]
        r    == HmSet(m.hm, key, index)
    IN  [ m   |-> [hm |-> r.hm, metric |-> CountDeleted(m1, r.old)],
          ret |-> r.old ]

\* A set that records the key of the call as the maximum, larger or not.
SetOpLastKeyAsMax(m, key, index) ==
    LET m1 == [m.metric EXCEPT
                 !.maximum_file_key = key,
                 !.file_count = @ + 1,
                 !.file_byte_count = @ + index.size]
        r  == HmSet(m.hm, key, index)
    IN  [ m   |-> [hm |-> r.hm, metric |-> CountDeleted(m1, r.old)],
          ret |-> r.old ]

\* A set that counts only keys it adds, not the ones it overwrites.
SetOpCountsNewKeysOnly(m, key, index) ==
    LET was == key \in DOMAIN m.hm
        m1  == [m.metric EXCEPT
                  !.maximum_file_key = IF key > @ THEN key ELSE @,
                  !.file_count = IF was THEN @ ELSE @ + 1,
                  !.file_byte_count = @ + index.size]
        r   == HmSet(m.hm, key, index)
    IN  [ m   |-> [hm |-> r.hm, metric |-> CountDeleted(m1, r.old)],
          ret |-> r.old ]

\* NeedleMapper::set: the mapper afterwards and the returned Option.
SetOp(m, key, index) ==
    LET m1 == [m.metric EXCEPT
                 !.maximum_file_key = IF key > @ THEN key ELSE @,
                 !.file_count = @ + 1,
                 !.file_byte_count = @ + index.size]
        r  == HmSet(m.hm, key, index)
    IN  [ m   |-> [hm |-> r.hm, metric |-> CountDeleted(m1, r.old)],
          ret |-> r.old ]

\* A delete that counts the deletion but not its bytes.
DeleteOpForgetsBytes(m, key) ==
    LET r == HmDelete(m.hm, key)
    IN  [ m   |-> [hm |-> r.hm,
                   metric |-> [m.metric EXCEPT
                        !.deleted_count = @ + (IF r.old # None THEN 1 ELSE 0)]],
          ret |-> r.old ]

\* A delete that counts a deletion whether or not the key was present.
DeleteOpAlwaysCounts(m, key) ==
    LET r == HmDelete(m.hm, key)
    IN  [ m   |-> [hm |-> r.hm,
                   metric |-> [m.metric EXCEPT !.deleted_count = @ + 1,
                        !.deleted_byte_count = @ + (IF r.old # None THEN r.old[1].size ELSE 0)]],
          ret |-> r.old ]

\* A delete that counts itself in file_count, as set does.
DeleteOpCountsAsApply(m, key) ==
    LET r == HmDelete(m.hm, key)
    IN  [ m   |-> [hm |-> r.hm,
                   metric |-> CountDeleted([m.metric EXCEPT !.file_count = @ + 1], r.old)],
          ret |-> r.old ]

\* NeedleMapper::delete: the mapper afterwards and the returned Option.
DeleteOp(m, key) ==
    LET r == HmDelete(m.hm, key)
    IN  [ m   |-> [hm |-> r.hm, metric |-> CountDeleted(m.metric, r.old)],
          ret |-> r.old ]

\* A get that hides entries whose offset is 0.
GetOpHidesZeroOffset(m, key) ==
    IF key \in DOMAIN m.hm /\ m.hm[key].offset > 0 THEN Some(m.hm[key]) ELSE None

\* NeedleMapper::get
GetOp(m, key) == HmGet(m.hm, key)

\* A closure that stores every record, tombstones included.
LoadHandlerStoresTombstones(m, lo, key, offset, size) ==
    LET lo1 == IF offset > lo.last_offset
               THEN [last_offset |-> offset, last_size |-> size]
               ELSE lo
    IN  [m |-> SetOp(m, key, [offset |-> offset, size |-> size]).m, lo |-> lo1]

\* A closure that takes a record for a tombstone only if its size is 0 too.
LoadHandlerSizeSensitive(m, lo, key, offset, size) ==
    LET lo1 == IF offset > lo.last_offset
               THEN [last_offset |-> offset, last_size |-> size]
               ELSE lo
        m1  == IF offset > 0 \/ size > 0
               THEN SetOp(m, key, [offset |-> offset, size |-> size]).m
               ELSE DeleteOp(m, key).m
    IN  [m |-> m1, lo |-> lo1]

\* The closure load_idx_file hands to walk_index_file: tracks the highest
\* offset seen, then applies the record as a set or as a delete.  It always
\* returns Ok(()).
LoadHandler(m, lo, key, offset, size) ==
    LET lo1 == IF offset > lo.last_offset
               THEN [last_offset |-> offset, last_size |-> size]
               ELSE lo
        m1  == IF offset > 0
               THEN SetOp(m, key, [offset |-> offset, size |-> size]).m
               ELSE DeleteOp(m, key).m
    IN  [m |-> m1, lo |-> lo1]

\* ---------------------------------------------------- walk_index_file
\* A trip count that rounds down.
NumIterationsFloor(len) == len \div RecordSize

\* The loop's trip count: (len + 15) / 16.
NumIterations(len) == (len + 15) \div RecordSize

\* read_exact of 16 bytes at the reader's position: whether they are there.
CanReadExact(f, pos) == Len(f) - pos >= RecordSize

ReadBuf(f, pos) == SubSeq(f, pos + 1, pos + RecordSize)

\* The capacity of the BufReader the scan reads through.
BufCapacity == 8192

\* The position of the file description after a read_exact of 16 bytes by a
\* reader at pos whose buffer holds the bytes up to fd: nothing is read from
\* the file while the buffer has 16 bytes; otherwise the buffer is refilled,
\* up to its capacity each time, until it has them or the file ends.
FdAfterRead(f, pos, fd) ==
    LET RECURSIVE fill(_)
        fill(d) == IF d - pos >= RecordSize \/ d >= Len(f) THEN d
                   ELSE fill(IF d + BufCapacity < Len(f) THEN d + BufCapacity ELSE Len(f))
    IN  fill(fd)

\* The scan's state: the file, the position the handle had when the scan
\* began (start), the position of the file description the handle and its
\* clone share (fd), the reader's own position (pos), the iterations left.
NoWalk ==
    [ kind |-> "none", f |-> << >>, pos |-> 0, n |-> 0, reads |-> 0,
      last_offset |-> 0, last_size |-> 0, fd |-> 0, start |-> 0 ]

NoCall == [op |-> "new", key |-> 0, loc |-> None, ret |-> None, result |-> "none"]

\* One invocation of the scan's handler: its arguments, and whether it
\* returned Ok.
Invoked(e, ok) == [key |-> e.key, offset |-> e.offset, size |-> e.size, ok |-> ok]

ScanCall(kind, result) ==
    [op |-> kind, key |-> 0, loc |-> None, ret |-> None, result |-> result]

\* ------------------------------------------------------------- Init
Init ==
    /\ needle_value_map = NewMapper.hm
    /\ metric = NewMapper.metric
    /\ pc = "idle"
    /\ walk = NoWalk
    /\ calls = << >>
    /\ last = NoCall
    /\ pre = NewMapper
    /\ history = << >>
    /\ ops = 0

\* ----------------------------------------------------------- actions
\* A live set(key, index).
Set(key, index) ==
    /\ pc = "idle"
    /\ LET r == SetOp(Mapper, key, index)
       IN  /\ needle_value_map' = r.m.hm
           /\ metric' = r.m.metric
           /\ last' = [op |-> "set", key |-> key, loc |-> Some(index),
                       ret |-> r.ret, result |-> "none"]
    /\ pre' = Mapper
    /\ history' = Append(history, [op |-> "set", key |-> key, loc |-> Some(index), src |-> "live"])
    /\ walk' = NoWalk
    /\ calls' = << >>
    /\ ops' = ops + 1
    /\ UNCHANGED pc

\* A live delete(key).
Delete(key) ==
    /\ pc = "idle"
    /\ LET r == DeleteOp(Mapper, key)
       IN  /\ needle_value_map' = r.m.hm
           /\ metric' = r.m.metric
           /\ last' = [op |-> "delete", key |-> key, loc |-> None,
                       ret |-> r.ret, result |-> "none"]
    /\ pre' = Mapper
    /\ history' = Append(history, [op |-> "delete", key |-> key, loc |-> None, src |-> "live"])
    /\ walk' = NoWalk
    /\ calls' = << >>
    /\ ops' = ops + 1
    /\ UNCHANGED pc

\* A get(key): &self, nothing is written.
Get(key) ==
    /\ pc = "idle"
    /\ last' = [op |-> "get", key |-> key, loc |-> None,
                ret |-> GetOp(Mapper, key), result |-> "none"]
    /\ pre' = Mapper
    /\ walk' = NoWalk
    /\ calls' = << >>
    /\ ops' = ops + 1
    /\ UNCHANGED << needle_value_map, metric, history, pc >>

\* walk_index_file up to its loop, on a handle whose position is p: clone
\* the handle, size the file.  try_clone duplicates the descriptor, so the
\* reader reads from p on.  Either of the two calls can fail with an I/O
\* error, which is returned at once.
ScanOpenAt(kind, f, p) ==
    /\ pc = "idle"
    /\ pre' = Mapper
    /\ calls' = << >>
    /\ ops' = ops + 1 + Len(f) \div RecordSize
    /\ \/ /\ pc' = "walk"
          /\ walk' = [ kind |-> kind, f |-> f, pos |-> p,
                       n |-> NumIterations(Len(f)), reads |-> 0,
                       last_offset |-> 0, last_size |-> 0,
                       fd |-> p, start |-> p ]
          /\ last' = ScanCall(kind, "pending")
       \/ /\ pc' = "idle"
          /\ walk' = [NoWalk EXCEPT !.kind = kind, !.f = f,
                                    !.pos = p, !.fd = p, !.start = p]
          /\ last' = ScanCall(kind, "io")
    /\ UNCHANGED << needle_value_map, metric, history >>

\* A scan on a handle just opened, as the volume owner hands it over.
ScanOpen(kind, f) == ScanOpenAt(kind, f, 0)

\* load_idx_file(index_file)
LoadIdxFile(f) == ScanOpen("load", f)

\* walk_index_file(f, walk) with a handler of the caller's own.
WalkIndexFile(f) == ScanOpen("walk", f)

\* An iteration that drops the handler's error and goes on.
WalkRecordIgnoresHandlerError ==
    /\ pc = "walk"
    /\ walk.n > 0
    /\ CanReadExact(walk.f, walk.pos)
    /\ LET e == IdxEntry(ReadBuf(walk.f, walk.pos))
       IN  /\ IF walk.kind = "load"
              THEN LET h == LoadHandler(Mapper, [last_offset |-> walk.last_offset,
                                                 last_size |-> walk.last_size],
                                        e.key, e.offset, e.size)
                   IN  /\ needle_value_map' = h.m.hm
                       /\ metric' = h.m.metric
                       /\ history' = Append(history, [op |-> "record", key |-> e.key,
                                   loc |-> Some([offset |-> e.offset, size |-> e.size]),
                                   src |-> "replay"])
                       /\ calls' = Append(calls, Invoked(e, TRUE))
                       /\ walk' = [walk EXCEPT !.pos = @ + RecordSize, !.n = @ - 1,
                                               !.reads = @ + 1,
                                               !.fd = FdAfterRead(walk.f, walk.pos, @),
                                               !.last_offset = h.lo.last_offset,
                                               !.last_size = h.lo.last_size]
                       /\ UNCHANGED << pc, last >>
              ELSE /\ UNCHANGED << needle_value_map, metric, history >>
                   /\ \/ /\ calls' = Append(calls, Invoked(e, TRUE))
                         /\ walk' = [walk EXCEPT !.pos = @ + RecordSize, !.n = @ - 1,
                                                 !.reads = @ + 1,
                                                 !.fd = FdAfterRead(walk.f, walk.pos, @)]
                         /\ UNCHANGED << pc, last >>
                      \/ /\ calls' = Append(calls, Invoked(e, FALSE))
                         /\ walk' = [walk EXCEPT !.pos = @ + RecordSize, !.n = @ - 1,
                                                 !.reads = @ + 1,
                                                 !.fd = FdAfterRead(walk.f, walk.pos, @)]
                         /\ UNCHANGED << pc, last >>
    /\ UNCHANGED << pre, ops >>

\* One iteration whose read succeeds: decode, then the handler.  The
\* load_idx_file closure always returns Ok; another handler may return Err,
\* which ends the scan.
WalkRecord ==
    /\ pc = "walk"
    /\ walk.n > 0
    /\ CanReadExact(walk.f, walk.pos)
    /\ LET e == IdxEntry(ReadBuf(walk.f, walk.pos))
       IN  /\ IF walk.kind = "load"
              THEN LET h == LoadHandler(Mapper, [last_offset |-> walk.last_offset,
                                                 last_size |-> walk.last_size],
                                        e.key, e.offset, e.size)
                   IN  /\ needle_value_map' = h.m.hm
                       /\ metric' = h.m.metric
                       /\ history' = Append(history, [op |-> "record", key |-> e.key,
                                   loc |-> Some([offset |-> e.offset, size |-> e.size]),
                                   src |-> "replay"])
                       /\ calls' = Append(calls, Invoked(e, TRUE))
                       /\ walk' = [walk EXCEPT !.pos = @ + RecordSize, !.n = @ - 1,
                                               !.reads = @ + 1,
                                               !.fd = FdAfterRead(walk.f, walk.pos, @),
                                               !.last_offset = h.lo.last_offset,
                                               !.last_size = h.lo.last_size]
                       /\ UNCHANGED << pc, last >>
              ELSE /\ UNCHANGED << needle_value_map, metric, history >>
                   /\ \/ /\ calls' = Append(calls, Invoked(e, TRUE))
                         /\ walk' = [walk EXCEPT !.pos = @ + RecordSize, !.n = @ - 1,
                                                 !.reads = @ + 1,
                                                 !.fd = FdAfterRead(walk.f, walk.pos, @)]
                         /\ UNCHANGED << pc, last >>
                      \/ /\ calls' = Append(calls, Invoked(e, FALSE))
                         /\ walk' = [walk EXCEPT !.pos = @ + RecordSize, !.reads = @ + 1,
                                                 !.fd = FdAfterRead(walk.f, walk.pos, @)]
                         /\ pc' = "idle"
                         /\ last' = ScanCall(walk.kind, "handler")
    /\ UNCHANGED << pre, ops >>

\* One iteration whose read_exact finds fewer than 16 bytes left: the read
\* fails with UnexpectedEof and the scan returns it.
WalkShortRead ==
    /\ pc = "walk"
    /\ walk.n > 0
    /\ ~CanReadExact(walk.f, walk.pos)
    /\ walk' = [walk EXCEPT !.reads = @ + 1,
                            !.fd = FdAfterRead(walk.f, walk.pos, @)]
    /\ pc' = "idle"
    /\ last' = ScanCall(walk.kind, "eof")
    /\ UNCHANGED << needle_value_map, metric, calls, pre, history, ops >>

\* A failing read that puts the mapper back as it was before the scan.
WalkReadErrorRollsBack ==
    /\ pc = "walk"
    /\ walk.n > 0
    /\ walk' = [walk EXCEPT !.reads = @ + 1]
    /\ pc' = "idle"
    /\ last' = ScanCall(walk.kind, "io")
    /\ needle_value_map' = pre.hm
    /\ metric' = pre.metric
    /\ UNCHANGED << calls, pre, history, ops >>

\* One iteration whose read fails with an I/O error of the device.
WalkReadError ==
    /\ pc = "walk"
    /\ walk.n > 0
    /\ walk' = [walk EXCEPT !.reads = @ + 1]
    /\ pc' = "idle"
    /\ last' = ScanCall(walk.kind, "io")
    /\ UNCHANGED << needle_value_map, metric, calls, pre, history, ops >>

\* The loop is over: Ok(()).
WalkReturn ==
    /\ pc = "walk"
    /\ walk.n = 0
    /\ pc' = "idle"
    /\ last' = ScanCall(walk.kind, "ok")
    /\ UNCHANGED << needle_value_map, metric, walk, calls, pre, history, ops >>

\* ------------------------------------------------------ specification
\* The record counts of the files the call budget still allows a scan of.
Affordable ==
    { n \in 0..MaxRecords : ops + 1 + n <= MaxOps }

Next ==
    \/ \E k \in KeySet, l \in LocSet : ops < MaxOps /\ Set(k, l)
    \/ \E k \in KeySet : ops < MaxOps /\ Delete(k)
    \/ \E k \in KeySet : ops < MaxOps /\ Get(k)
    \/ \E n \in Affordable : \E f \in FilesOfCount(n) : LoadIdxFile(f)
    \/ \E n \in Affordable : \E f \in FilesOfCount(n) : WalkIndexFile(f)
    \/ WalkRecord
    \/ WalkShortRead
    \/ WalkReadError
    \/ WalkReturn

Spec == Init /\ [][Next]_vars

\* ------------------------------------------------- reference notions
\* The i-th 16-byte chunk of a file and the record it is the encoding of.
Chunk(f, i) == SubSeq(f, RecordSize * (i - 1) + 1, RecordSize * i)

RecordAt(f, i) ==
    CHOOSE r \in RecordSet : Encode(r.key, r.offset, r.size) = Chunk(f, i)

\* The complete records of a file, in file order.
FileRecords(f) == [i \in 1..(Len(f) \div RecordSize) |-> RecordAt(f, i)]

\* A record applied the way the live path would: set for a positive offset,
\* delete for offset 0.
ApplyRecord(m, r) ==
    IF r.offset > 0
    THEN SetOp(m, r.key, [offset |-> r.offset, size |-> r.size]).m
    ELSE DeleteOp(m, r.key).m

\* The records of recs applied to m in order.
ApplyRecords(m, recs) ==
    LET RECURSIVE go(_, _)
        go(x, i) == IF i > Len(recs) THEN x ELSE go(ApplyRecord(x, recs[i]), i + 1)
    IN  go(m, 1)

\* What the last record of key k in recs says: its Location if its offset
\* is positive, nothing if it is a tombstone or if k has no record.
LastRecordOf(recs, k) ==
    LET at == { i \in 1..Len(recs) : recs[i].key = k }
    IN  IF at = {} THEN None
        ELSE LET r == recs[CHOOSE i \in at : \A j \in at : j <= i]
             IN  IF r.offset > 0 THEN Some([offset |-> r.offset, size |-> r.size])
                 ELSE None

\* The arguments the handler was invoked with, in order.
CallArgs == [i \in 1..Len(calls) |-> [key |-> calls[i].key, offset |-> calls[i].offset,
                                      size |-> calls[i].size]]

Returned(kind, result) == pc = "idle" /\ last.op = kind /\ last.result = result

\* ------------------------------------------------------------ claims
\* C1: load_idx_file on an empty mapper, for a file of complete records,
\* ends with exactly the mapper that set (offset > 0) and delete (offset 0)
\* applied in file order to an empty mapper give, and get(key) is then what
\* the last record of that key says.
C1_ReplayIsFoldInFileOrder ==
    (Returned("load", "ok") /\ pre = NewMapper) =>
        /\ Len(walk.f) % RecordSize = 0
        /\ Mapper = ApplyRecords(NewMapper, FileRecords(walk.f))
        /\ \A k \in KeySet : GetOp(Mapper, k) = LastRecordOf(FileRecords(walk.f), k)

\* A replay of two records of one key, the second overriding the first.
C1_Witness ==
    /\ Returned("load", "ok")
    /\ pre = NewMapper
    /\ Len(calls) = 2
    /\ calls[1].key = calls[2].key
    /\ calls[1].offset > 0
    /\ calls[2].offset > calls[1].offset

\* Scenario A of the testable properties: the three records, in file order.
ScenarioA ==
    << [key |-> 1, offset |-> 100, size |-> 50],
       [key |-> 2, offset |-> 200, size |-> 30],
       [key |-> 1, offset |-> 0,   size |-> 0] >>

\* Every file of at most that many records drawn from the scenario's own.
FilesA ==
    { EncodeAll(recs) :
        recs \in UNION { [1..n -> { ScenarioA[i] : i \in 1..Len(ScenarioA) }] :
                         n \in 0..Len(ScenarioA) } }

\* A fresh mapper replaying one of these files.
NextA ==
    \/ \E f \in FilesA : ops = 0 /\ LoadIdxFile(f)
    \/ WalkRecord
    \/ WalkReadError
    \/ WalkReturn

SpecA == Init /\ [][NextA]_vars

\* C2 as stated: replaying [(1,100,50), (2,200,30), (1,0,0)] into an empty
\* mapper gives get(1) absent, get(2) = {200, 30}, file_count 3, deleted
\* count 1, maximum key 2, content_size 80 and deleted bytes 50.
C2_ScenarioA_AsStated ==
    (Returned("load", "ok") /\ walk.f = EncodeAll(ScenarioA)) =>
        /\ GetOp(Mapper, 1) = None
        /\ GetOp(Mapper, 2) = Some([offset |-> 200, size |-> 30])
        /\ metric.file_count = 3
        /\ metric.deleted_count = 1
        /\ metric.maximum_file_key = 2
        /\ metric.file_byte_count = 80
        /\ metric.deleted_byte_count = 50

\* C2, amended: the same replay gives file_count 2 (the two records with a
\* positive offset; the tombstone is a delete, which file_count does not
\* count), and the other values as stated.
C2_ScenarioA ==
    (Returned("load", "ok") /\ walk.f = EncodeAll(ScenarioA)) =>
        /\ GetOp(Mapper, 1) = None
        /\ GetOp(Mapper, 2) = Some([offset |-> 200, size |-> 30])
        /\ metric.file_count = 2
        /\ metric.deleted_count = 1
        /\ metric.maximum_file_key = 2
        /\ metric.file_byte_count = 80
        /\ metric.deleted_byte_count = 50

\* The replay of the scenario's file has returned.
C2_Witness ==
    /\ Returned("load", "ok")
    /\ walk.f = EncodeAll(ScenarioA)
    /\ pre = NewMapper
    /\ Len(calls) = 3

\* C3: a set(key, loc) adds 1 to file_count and loc.size to the applied
\* bytes whether or not the key was present; exactly when the key was
\* present with p it also adds 1 to the deleted count and p.size to the
\* deleted bytes and returns p, and otherwise returns nothing and leaves
\* both alone; get(key) is loc afterwards.  set(5,{10,100}) then
\* set(5,{20,200}) on an empty mapper returns {10,100} from the second call
\* and gives file_count 2, deleted count 1, deleted bytes 100, applied bytes
\* 300 and get(5) = {20,200}.
C3_SetAccounting ==
    /\ last.op = "set" =>
         LET k   == last.key
             loc == last.loc[1]
             was == k \in DOMAIN pre.hm
         IN  /\ metric.file_count = pre.metric.file_count + 1
             /\ metric.file_byte_count = pre.metric.file_byte_count + loc.size
             /\ metric.deleted_count = pre.metric.deleted_count + (IF was THEN 1 ELSE 0)
             /\ metric.deleted_byte_count =
                    pre.metric.deleted_byte_count + (IF was THEN pre.hm[k].size ELSE 0)
             /\ last.ret = (IF was THEN Some(pre.hm[k]) ELSE None)
             /\ GetOp(Mapper, k) = Some(loc)
    /\ ( /\ last.op = "set"
         /\ history = << [op |-> "set", key |-> 5, src |-> "live",
                          loc |-> Some([offset |-> 10, size |-> 100])],
                         [op |-> "set", key |-> 5, src |-> "live",
                          loc |-> Some([offset |-> 20, size |-> 200])] >> ) =>
         /\ last.ret = Some([offset |-> 10, size |-> 100])
         /\ metric.file_count = 2
         /\ metric.deleted_count = 1
         /\ metric.deleted_byte_count = 100
         /\ metric.file_byte_count = 300
         /\ GetOp(Mapper, 5) = Some([offset |-> 20, size |-> 200])

\* The second set of the scenario has returned.
C3_Witness ==
    /\ last.op = "set"
    /\ last.key = 5
    /\ last.loc = Some([offset |-> 20, size |-> 200])
    /\ pre.hm = [k \in {5} |-> [offset |-> 10, size |-> 100]]
    /\ Len(history) = 2

\* C4: a delete of a key that is not in the map returns nothing and leaves
\* the map and the five metrics as they were; on an empty mapper the
\* metrics stay at zero.
C4_DeleteAbsentIsNoOp ==
    (last.op = "delete" /\ last.key \notin DOMAIN pre.hm) =>
        /\ last.ret = None
        /\ Mapper = pre
        /\ (pre = NewMapper => metric = MetricDefault /\ needle_value_map = HmEmpty)

\* A delete of an absent key on a mapper that holds another key.
C4_Witness ==
    /\ last.op = "delete"
    /\ last.key \notin DOMAIN pre.hm
    /\ pre.hm # HmEmpty
    /\ pre.metric.file_count > 0

\* C5: during load_idx_file a record with offset 0 removes its key whatever
\* its size field, is never stored, changes nothing when the key is not
\* present, and the replay goes on to the next record.
C5_TombstoneRule ==
    [][ ( /\ pc = "walk"
          /\ walk.kind = "load"
          /\ Len(calls') = Len(calls) + 1
          /\ calls'[Len(calls')].offset = 0 ) =>
            LET k == calls'[Len(calls')].key
            IN  /\ k \notin DOMAIN needle_value_map'
                /\ \A j \in KeySet \ {k} :
                       HmGet(needle_value_map', j) = HmGet(needle_value_map, j)
                /\ (k \notin DOMAIN needle_value_map =>
                       needle_value_map' = needle_value_map /\ metric' = metric)
                /\ pc' = "walk"
                /\ walk'.n = walk.n - 1
                /\ walk'.pos = walk.pos + RecordSize ]_vars

\* A replay that has applied a tombstone of non-zero size to a key an
\* earlier record of the file had set.
C5_Witness ==
    /\ walk.kind = "load"
    /\ Len(calls) = 2
    /\ calls[1].key = calls[2].key
    /\ calls[1].offset > 0
    /\ calls[2].offset = 0
    /\ calls[2].size > 0
    /\ calls[2].key \notin DOMAIN needle_value_map

\* The value the history says key k holds: that of the last event of k if
\* it is a live set or a replayed record of positive offset, nothing if it
\* is a live delete or a replayed tombstone, or if k has no event.
LastStored(h, k) ==
    LET at == { i \in 1..Len(h) : h[i].key = k }
    IN  IF at = {} THEN None
        ELSE LET e == h[CHOOSE i \in at : \A j \in at : j <= i]
             IN  IF e.op = "set" \/ (e.op = "record" /\ e.loc[1].offset > 0)
                 THEN e.loc
                 ELSE None

\* C6: get(key) changes neither the map nor the metrics, and returns the
\* Location most recently stored for key by a set or by a replayed record
\* of positive offset if no delete or tombstone of key came after it, and
\* nothing otherwise.
C6_GetIsPureLookup ==
    last.op = "get" =>
        /\ Mapper = pre
        /\ last.ret = LastStored(history, last.key)

\* A get that finds what a replayed record stored.
C6_Witness ==
    /\ last.op = "get"
    /\ last.ret # None
    /\ \E i \in 1..Len(history) :
          history[i].src = "replay" /\ history[i].key = last.key

Scanning == walk.kind \in {"load", "walk"}

\* The number of complete records of the file being scanned.
Whole == Len(walk.f) \div RecordSize

\* C7: a file whose length is not a multiple of 16 makes load_idx_file and
\* walk_index_file return an error; the handler is invoked only for complete
\* records, at most the floor(length/16) that precede the torn tail, and the
\* ceil(length/16)-th read fails.
C7_TruncatedFileRejected ==
    (Scanning /\ Len(walk.f) % RecordSize # 0) =>
        /\ Len(calls) <= Whole
        /\ \A i \in 1..Len(calls) : CallArgs[i] = RecordAt(walk.f, i)
        /\ walk.reads <= Whole + 1
        /\ (pc = "idle" => last.result \in {"eof", "io", "handler"})
        /\ (walk.reads = Whole + 1 => pc = "idle" /\ last.result \in {"eof", "io"})
        /\ (last.result = "eof" => walk.reads = Whole + 1 /\ Len(calls) = Whole)

\* A load of two complete records and a torn third has failed on its third
\* read.
C7_Witness ==
    /\ Returned("load", "eof")
    /\ Len(walk.f) % RecordSize = 15
    /\ Len(calls) = 2
    /\ walk.reads = 3

\* C8: the handler is invoked on the records in file order, and the scan
\* stops at the first error: when the handler fails on the i-th record or
\* the i-th read fails, that error is what the scan returns, the handler is
\* invoked for no later record, and no read is made again.
C8_StopsAtFirstError ==
    Scanning =>
        /\ Len(calls) <= Whole
        /\ \A i \in 1..Len(calls) : CallArgs[i] = RecordAt(walk.f, i)
        /\ \A i \in 1..(Len(calls) - 1) : calls[i].ok
        /\ (pc = "walk" => walk.reads = Len(calls) /\ \A i \in 1..Len(calls) : calls[i].ok)
        /\ ((Len(calls) > 0 /\ ~calls[Len(calls)].ok) =>
               Returned(walk.kind, "handler") /\ walk.reads = Len(calls))
        /\ (last.result = "handler" => Len(calls) > 0 /\ ~calls[Len(calls)].ok)
        /\ ((pc = "idle" /\ last.result \in {"eof", "io"}) =>
               /\ \A i \in 1..Len(calls) : calls[i].ok
               /\ Len(calls) = (IF walk.reads = 0 THEN 0 ELSE walk.reads - 1))
        /\ (Returned(walk.kind, "ok") => walk.reads = Whole /\ Len(calls) = Whole)

\* A scan whose handler failed on the first of two records.
C8_Witness ==
    /\ Returned("walk", "handler")
    /\ Whole = 2
    /\ Len(calls) = 1
    /\ ~calls[1].ok

\* C9: no step decreases any of the five metrics, and a set that overwrites
\* a key still adds 1 to file_count and the new size to the applied bytes.
C9_MetricsMonotonic ==
    [][ /\ metric'.maximum_file_key >= metric.maximum_file_key
        /\ metric'.file_count >= metric.file_count
        /\ metric'.deleted_count >= metric.deleted_count
        /\ metric'.deleted_byte_count >= metric.deleted_byte_count
        /\ metric'.file_byte_count >= metric.file_byte_count
        /\ ( /\ pc = "idle"
             /\ ops' = ops + 1
             /\ last'.op = "set"
             /\ last'.key \in DOMAIN needle_value_map ) =>
               /\ metric'.file_count = metric.file_count + 1
               /\ metric'.file_byte_count = metric.file_byte_count + last'.loc[1].size ]_vars

\* A set has overwritten a value with a smaller one.
C9_Witness ==
    /\ last.op = "set"
    /\ last.ret # None
    /\ last.loc[1].size < last.ret[1].size
    /\ metric.file_byte_count = pre.metric.file_byte_count + last.loc[1].size

\* C10 as stated: no stored Location has offset 0, whatever set, delete and
\* load_idx_file calls were made.
C10_NoStoredTombstone_AsStated ==
    \A k \in DOMAIN needle_value_map : needle_value_map[k].offset # 0

\* No live set call so far carried a Location of offset 0.
LiveOffsetsPositive ==
    \A i \in 1..Len(history) :
        (history[i].src = "live" /\ history[i].op = "set") => history[i].loc[1].offset > 0

\* C10, amended: as long as every set call made by the volume owner carries
\* a positive offset, no stored Location has offset 0, whatever delete and
\* load_idx_file calls were made and whatever the records replayed.
C10_NoStoredTombstone ==
    LiveOffsetsPositive =>
        \A k \in DOMAIN needle_value_map : needle_value_map[k].offset # 0

\* A replay has applied a tombstone and the map holds an entry.
C10_Witness ==
    /\ LiveOffsetsPositive
    /\ needle_value_map # HmEmpty
    /\ \E i \in 1..Len(history) :
          history[i].src = "replay" /\ history[i].loc[1].offset = 0

\* ------------------------------------------------ the codec at full width
\* A u64 or u32 beyond the integers at hand is written as its base-65536
\* digits, most significant first: four for a key, two for an offset or size.
LimbSet == {0, 258, 65535}

\* The big-endian bytes of such a number (the writer's side of the layout).
LimbBytes(limbs) ==
    LET RECURSIVE out(_)
        out(i) == IF i > Len(limbs) THEN << >>
                  ELSE << limbs[i] \div 256, limbs[i] % 256 >> \o out(i + 1)
    IN  out(1)

EncodeLimbs(key, offset, size) == LimbBytes(key) \o LimbBytes(offset) \o LimbBytes(size)

\* A get_u64 / get_u32 that takes the least significant byte first.
GetLimbsLittleEndian(bytes) ==
    [j \in 1..(Len(bytes) \div 2) |->
        bytes[Len(bytes) - 2 * j + 2] * 256 + bytes[Len(bytes) - 2 * j + 1]]

\* Buf::get_u64 / get_u32 at full width: the big-endian value of a run of
\* bytes, as base-65536 digits.
GetLimbs(bytes) ==
    [j \in 1..(Len(bytes) \div 2) |-> bytes[2 * j - 1] * 256 + bytes[2 * j]]

\* idx_entry at full width.
IdxEntryLimbs(buf) ==
    [ key    |-> GetLimbs(SubSeq(buf, 1, 8)),
      offset |-> GetLimbs(SubSeq(buf, 9, 12)),
      size   |-> GetLimbs(SubSeq(buf, 13, 16)) ]

\* A writer puts the 16 bytes of (key, offset, size) in a buffer.
WriteRecord(key, offset, size) ==
    /\ pc = "idle"
    /\ last.op = "new"
    /\ last' = [op |-> "encode", key |-> key,
                loc |-> Some([offset |-> offset, size |-> size]),
                ret |-> None, result |-> "none"]
    /\ walk' = [NoWalk EXCEPT !.kind = "codec", !.f = EncodeLimbs(key, offset, size)]
    /\ UNCHANGED << needle_value_map, metric, pc, calls, pre, history, ops >>

\* idx_entry decodes the buffer.
DecodeEntry ==
    /\ pc = "idle"
    /\ last.op = "encode"
    /\ calls = << >>
    /\ calls' = << IdxEntryLimbs(walk.f) >>
    /\ UNCHANGED << needle_value_map, metric, pc, walk, last, pre, history, ops >>

NextCodec ==
    \/ \E k \in [1..4 -> LimbSet], o \in [1..2 -> LimbSet], z \in [1..2 -> LimbSet] :
          WriteRecord(k, o, z)
    \/ DecodeEntry

SpecCodec == Init /\ [][NextCodec]_vars

\* Whether the digits stand for a number below 2^31, and that number.
Small(limbs) ==
    /\ \A i \in 1..(Len(limbs) - 2) : limbs[i] = 0
    /\ limbs[Len(limbs) - 1] < 32768

LimbsValue(limbs) == limbs[Len(limbs) - 1] * 65536 + limbs[Len(limbs)]

\* C11: decoding the 16 bytes made of the key as 8 big-endian bytes, the
\* offset as 4 and the size as 4 gives back exactly (key, offset, size),
\* offset 0 and any size included; for numbers below 2^31 the decoder on
\* integers gives the same.
C11_CodecRoundTrip ==
    (last.op = "encode" /\ calls # << >>) =>
        /\ Len(walk.f) = RecordSize
        /\ calls[1] = [key |-> last.key, offset |-> last.loc[1].offset,
                       size |-> last.loc[1].size]
        /\ (Small(last.key) /\ Small(last.loc[1].offset) /\ Small(last.loc[1].size)) =>
               IdxEntry(walk.f) = [key    |-> LimbsValue(last.key),
                                   offset |-> LimbsValue(last.loc[1].offset),
                                   size   |-> LimbsValue(last.loc[1].size)]

\* The largest key with a tombstone offset and a multi-byte size has been
\* decoded.
C11_Witness ==
    /\ last.op = "encode"
    /\ calls # << >>
    /\ last.key = << 65535, 65535, 65535, 65535 >>
    /\ last.loc[1].offset = << 0, 0 >>
    /\ last.loc[1].size = << 258, 65535 >>
    /\ calls[1].key = last.key

\* The sizes of the entries of a map, added up.
SumSizes(hm) ==
    LET RECURSIVE sum(_)
        sum(ks) == IF ks = {} THEN 0
                   ELSE LET k == CHOOSE x \in ks : TRUE
                        IN  hm[k].size + sum(ks \ {k})
    IN  sum(DOMAIN hm)

\* C12: content_size() - deleted_byte_count() is the sum of the sizes of the
\* entries in the map, and so never negative.
C12_LiveFootprint ==
    /\ metric.file_byte_count - metric.deleted_byte_count = SumSizes(needle_value_map)
    /\ metric.file_byte_count - metric.deleted_byte_count >= 0

\* A key was overwritten, another deleted, and the map still holds an entry.
C12_Witness ==
    /\ needle_value_map # HmEmpty
    /\ SumSizes(needle_value_map) > 0
    /\ metric.deleted_count > 0
    /\ metric.deleted_byte_count > 0
    /\ metric.file_byte_count > SumSizes(needle_value_map)

\* -------------------------------------------- the volume owner's protocol
\* load_idx_file as a whole on a device that reads without error: the mapper
\* it leaves and whether it returned Ok.
LoadResult(m, f) ==
    LET RECURSIVE go(_, _, _)
        go(x, lo, i) ==
            IF i > NumIterations(Len(f)) THEN [ok |-> TRUE, m |-> x]
            ELSE IF ~CanReadExact(f, RecordSize * (i - 1)) THEN [ok |-> FALSE, m |-> x]
            ELSE LET e == IdxEntry(ReadBuf(f, RecordSize * (i - 1)))
                     h == LoadHandler(x, lo, e.key, e.offset, e.size)
                 IN  go(h.m, h.lo, i + 1)
    IN  go(m, [last_offset |-> 0, last_size |-> 0], 1)

\* A live write, first half: the owner appends the record to the index file.
OwnerAppendWrite(key, index) ==
    /\ pc = "idle"
    /\ index.offset > 0
    /\ walk' = [walk EXCEPT !.kind = "owner",
                            !.f = @ \o Encode(key, index.offset, index.size)]
    /\ last' = [op |-> "set", key |-> key, loc |-> Some(index),
                ret |-> None, result |-> "pending"]
    /\ pc' = "pending"
    /\ pre' = Mapper
    /\ UNCHANGED << needle_value_map, metric, calls, history, ops >>

\* A live delete, first half: the owner appends the tombstone {key, 0, 0}.
OwnerAppendDelete(key) ==
    /\ pc = "idle"
    /\ walk' = [walk EXCEPT !.kind = "owner", !.f = @ \o Encode(key, 0, 0)]
    /\ last' = [op |-> "delete", key |-> key, loc |-> None,
                ret |-> None, result |-> "pending"]
    /\ pc' = "pending"
    /\ pre' = Mapper
    /\ UNCHANGED << needle_value_map, metric, calls, history, ops >>

\* Second half: the set or delete call on the mapper.
OwnerApply ==
    /\ pc = "pending"
    /\ LET r == IF last.op = "set" THEN SetOp(Mapper, last.key, last.loc[1])
                ELSE DeleteOp(Mapper, last.key)
       IN  /\ needle_value_map' = r.m.hm
           /\ metric' = r.m.metric
           /\ last' = [last EXCEPT !.ret = r.ret, !.result = "none"]
    /\ history' = Append(history, [op |-> last.op, key |-> last.key,
                                   loc |-> last.loc, src |-> "live"])
    /\ pc' = "idle"
    /\ ops' = ops + 1
    /\ UNCHANGED << walk, calls, pre >>

NextOwner ==
    \/ \E k \in KeySet, l \in LocSet : ops < MaxOps /\ OwnerAppendWrite(k, l)
    \/ \E k \in KeySet : ops < MaxOps /\ OwnerAppendDelete(k)
    \/ OwnerApply

SpecOwner == Init /\ [][NextOwner]_vars

\* C13: when the owner appends the record before each set and the tombstone
\* before each delete, starting from an empty file and an empty mapper,
\* replaying the index file into a new mapper gives the live map and the
\* live metrics whenever no operation is half done, and between an append
\* and its call it gives the live mapper with that one call applied.
C13_ReplayMatchesLive ==
    LET replayed == LoadResult(NewMapper, walk.f)
    IN  /\ replayed.ok
        /\ pc = "idle" => replayed.m = Mapper
        /\ pc = "pending" =>
              replayed.m = (IF last.op = "set"
                            THEN SetOp(Mapper, last.key, last.loc[1]).m
                            ELSE DeleteOp(Mapper, last.key).m)

\* The owner has written a key, overwritten it, and appended its tombstone
\* without having called delete yet.
C13_Witness ==
    /\ pc = "pending"
    /\ last.op = "delete"
    /\ last.key \in DOMAIN needle_value_map
    /\ metric.deleted_count = 1
    /\ Len(walk.f) = 3 * RecordSize

\* C14: a delete of a key that is present with Location p removes the
\* entry, returns p, adds 1 to the deleted count and p.size to the deleted
\* bytes, and leaves file_count, the applied bytes and the maximum key as
\* they were.
C14_DeletePresent ==
    (last.op = "delete" /\ last.key \in DOMAIN pre.hm) =>
        LET p == pre.hm[last.key]
        IN  /\ GetOp(Mapper, last.key) = None
            /\ \A k \in DOMAIN pre.hm \ {last.key} : GetOp(Mapper, k) = Some(pre.hm[k])
            /\ last.ret = Some(p)
            /\ metric.deleted_count = pre.metric.deleted_count + 1
            /\ metric.deleted_byte_count = pre.metric.deleted_byte_count + p.size
            /\ metric.file_count = pre.metric.file_count
            /\ metric.file_byte_count = pre.metric.file_byte_count
            /\ metric.maximum_file_key = pre.metric.maximum_file_key

\* A delete of the larger of two present keys, whose value had a size.
C14_Witness ==
    /\ last.op = "delete"
    /\ last.key = 99
    /\ DOMAIN pre.hm = {5, 99}
    /\ pre.hm[99].size > 0
    /\ metric.maximum_file_key = 99

\* The largest key of a set of keys, 0 for none.
LargestKey(S) == IF S = {} THEN 0 ELSE CHOOSE k \in S : \A j \in S : j <= k

\* The keys of the set calls and of all the replayed records so far.
KeysSeen ==
    { history[i].key : i \in { j \in 1..Len(history) : history[j].op \in {"set", "record"} } }

\* The keys of the set calls, live or made by the replay of a record of
\* positive offset.
KeysSet ==
    { history[i].key :
        i \in { j \in 1..Len(history) :
                  \/ history[j].op = "set"
                  \/ history[j].op = "record" /\ history[j].loc[1].offset > 0 } }

\* C15 as stated: max_file_key is the largest key of any set call or
\* replayed record so far (0 if none), it is at least every key in the map,
\* and a set updates it to max(current, key).
C15_MaxKeyEverObserved ==
    /\ metric.maximum_file_key = LargestKey(KeysSeen)
    /\ \A k \in DOMAIN needle_value_map : k <= metric.maximum_file_key
    /\ (last.op = "set" =>
          metric.maximum_file_key =
              (IF last.key > pre.metric.maximum_file_key THEN last.key
               ELSE pre.metric.maximum_file_key))

\* C15, amended: max_file_key is the largest key of any set call so far,
\* those the replay makes for records of positive offset included (0 if
\* none); a replayed tombstone, like a delete, leaves it alone; it is at
\* least every key in the map, and a set updates it to max(current, key).
C15_MaxKeyEverSet ==
    /\ metric.maximum_file_key = LargestKey(KeysSet)
    /\ \A k \in DOMAIN needle_value_map : k <= metric.maximum_file_key
    /\ (last.op = "set" =>
          metric.maximum_file_key =
              (IF last.key > pre.metric.maximum_file_key THEN last.key
               ELSE pre.metric.maximum_file_key))
    /\ (last.op = "delete" => metric.maximum_file_key = pre.metric.maximum_file_key)

\* A replay has applied a tombstone whose key is larger than every key set
\* so far, after a set of a smaller key.
C15_Witness ==
    /\ Returned("load", "ok")
    /\ metric.maximum_file_key = 5
    /\ \E i \in 1..Len(history) :
          /\ history[i].op = "record"
          /\ history[i].key = 99
          /\ history[i].loc[1].offset = 0

\* C16: when load_idx_file fails at its i-th read, by a short read or by a
\* read error, nothing is rolled back: the map and the metrics are those the
\* first i-1 records of the file, applied in file order, give from the
\* mapper as it was before the load, and the call returns the error.
C16_NoRollback ==
    (Returned("load", "eof") \/ Returned("load", "io")) =>
        LET done == IF walk.reads = 0 THEN 0 ELSE walk.reads - 1
        IN  /\ done <= Whole
            /\ Len(calls) = done
            /\ Mapper = ApplyRecords(pre, SubSeq(FileRecords(walk.f), 1, done))

\* A load on a mapper that held a key has failed on its second read, after
\* its first record changed the mapper.
C16_Witness ==
    /\ Returned("load", "eof")
    /\ walk.reads = 2
    /\ pre.hm # HmEmpty
    /\ Mapper # pre

\* ------------------------------------------- the caller's file handle
\* The positions a handle on f can have: a record boundary or the end.
HandlePositions(f) ==
    { RecordSize * i : i \in 0..(Len(f) \div RecordSize) } \cup { Len(f) }

\* Scans on a handle the caller has read from or written through before.
NextHandle ==
    \/ \E n \in Affordable : \E f \in FilesOfCount(n) : \E p \in HandlePositions(f) :
          ScanOpenAt("load", f, p)
    \/ \E n \in Affordable : \E f \in FilesOfCount(n) : \E p \in HandlePositions(f) :
          ScanOpenAt("walk", f, p)
    \/ WalkRecord
    \/ WalkShortRead
    \/ WalkReadError
    \/ WalkReturn

SpecHandle == Init /\ [][NextHandle]_vars

\* C17: the scan reads through a cursor of its own: whatever the position
\* of the caller's handle, the first record the handler gets is the first
\* record of the file, and once the scan has returned, Ok or not, the
\* position of the caller's handle is what it was before the scan.
C17_IndependentCursor ==
    Scanning =>
        /\ Len(calls) > 0 => CallArgs[1] = RecordAt(walk.f, 1)
        /\ pc = "idle" => walk.fd = walk.start

\* The offset and size of the first record of recs, in file order, whose
\* offset is the largest and positive; (0, 0) when there is none.
HighestOffsetRecord(recs) ==
    LET at == { i \in 1..Len(recs) :
                  /\ recs[i].offset > 0
                  /\ \A j \in 1..Len(recs) : recs[j].offset <= recs[i].offset }
    IN  IF at = {} THEN [offset |-> 0, size |-> 0]
        ELSE LET r == recs[CHOOSE i \in at : \A j \in at : i <= j]
             IN  [offset |-> r.offset, size |-> r.size]

\* What a load that returned Ok has tracked is the highest-offset record.
TrackedIsHighest ==
    Returned("load", "ok") =>
        [offset |-> walk.last_offset, size |-> walk.last_size]
            = HighestOffsetRecord(FileRecords(walk.f))

\* C18: load_idx_file tracks the highest-offset record of the scan, the
\* first in file order with the largest offset, and on success gives its
\* offset and size to the caller.
C18_SurfacesHighestOffset ==
    (Returned("load", "ok") /\ \E i \in 1..Len(calls) : calls[i].offset > 0) =>
        /\ TrackedIsHighest
        /\ last.ret = Some(HighestOffsetRecord(FileRecords(walk.f)))

\* C19: whatever set, delete and load_idx_file calls were made on an empty
\* mapper, file_count minus the deleted count is the number of keys in the
\* map, so the deleted count never exceeds file_count.
C19_LiveEntryCount ==
    /\ metric.deleted_count <= metric.file_count
    /\ metric.file_count - metric.deleted_count = Cardinality(DOMAIN needle_value_map)

\* A key was set, overwritten and deleted: two applies, two deletions, no
\* key left.
C19_Witness ==
    /\ last.op = "delete"
    /\ last.ret # None
    /\ metric.file_count = 2
    /\ metric.deleted_count = 2
    /\ needle_value_map = HmEmpty

\* C20: keys are independent.  A step that sets key k, by a live set or by
\* the replay of a record of positive offset, makes get(k) the value set,
\* whether k was absent or live; a step that deletes k, by a live delete or
\* by the replay of a tombstone, makes get(k) absent, whether k was live or
\* absent; and in either case get of every other key is what it was.  A step
\* that does neither changes get of no key.
C20_KeysIndependent ==
    [][ LET liveSet == pc = "idle" /\ ops' = ops + 1 /\ last'.op = "set"
            liveDel == pc = "idle" /\ ops' = ops + 1 /\ last'.op = "delete"
            replay  == /\ pc = "walk"
                       /\ walk.kind = "load"
                       /\ Len(calls') = Len(calls) + 1
            rec     == calls'[Len(calls')]
            after   == [hm |-> needle_value_map', metric |-> metric']
        IN  /\ liveSet =>
                /\ GetOp(after, last'.key) = last'.loc
                /\ \A j \in KeySet \ {last'.key} : GetOp(after, j) = GetOp(Mapper, j)
            /\ liveDel =>
                /\ GetOp(after, last'.key) = None
                /\ \A j \in KeySet \ {last'.key} : GetOp(after, j) = GetOp(Mapper, j)
            /\ (replay /\ rec.offset > 0) =>
                /\ GetOp(after, rec.key) = Some([offset |-> rec.offset, size |-> rec.size])
                /\ \A j \in KeySet \ {rec.key} : GetOp(after, j) = GetOp(Mapper, j)
            /\ (replay /\ rec.offset = 0) =>
                /\ GetOp(after, rec.key) = None
                /\ \A j \in KeySet \ {rec.key} : GetOp(after, j) = GetOp(Mapper, j)
            /\ ~(liveSet \/ liveDel \/ replay) =>
                \A j \in KeySet : GetOp(after, j) = GetOp(Mapper, j) ]_vars

\* The replay of a record has set a second key and left the first, set by
\* a live call, with its value.
C20_Witness ==
    /\ walk.kind = "load"
    /\ Len(calls) = 1
    /\ calls[1].offset > 0
    /\ calls[1].key \notin DOMAIN pre.hm
    /\ pre.hm # HmEmpty
    /\ Cardinality(DOMAIN needle_value_map) = 2
    /\ \A k \in DOMAIN pre.hm : needle_value_map[k] = pre.hm[k]

=============================================================================
